---- MODULE Spec2Model ----
(***************************************************************************)
(* Model of prosemirror-lwdita's document.ts: the forward transform        *)
(* document() (JDita source tree -> ProseMirror editor tree) and the       *)
(* reverse transform unTravel() (editor tree -> JDita source tree).        *)
(*                                                                         *)
(* Conventions of the model                                                *)
(*  - A JavaScript string is a sequence of tokens; a token is either a     *)
(*    word or one of the separators "-" and "_".  'media-track' is         *)
(*    <<"media", "-", "track">>, '' is <<>>.  String replacement acts on   *)
(*    the separator tokens.                                                *)
(*  - A JavaScript value (attribute value) is a record [k, v]: k is the    *)
(*    typeof tag, v the string or the literal of the number/boolean.       *)
(*  - An optional field (a key that may be missing or hold undefined) is   *)
(*    a sequence of length 0 (missing) or 1 (present).                     *)
(*  - An attribute object is a function from its keys to JS values; the    *)
(*    insertion order of keys is not modelled.                             *)
(***************************************************************************)
EXTENDS Integers, Sequences, FiniteSets, TLC

\* ------------------------------------------------------------------------
\* JavaScript values
\* ------------------------------------------------------------------------
None == <<>>
Some(x) == <<x>>
IsSome(o) == Len(o) = 1
Get(o) == o[1]

Str(s) == [k |-> "string", v |-> s]
Num(s) == [k |-> "number", v |-> s]
Bool(s) == [k |-> "boolean", v |-> s]
Undefined == [k |-> "undefined", v |-> <<>>]

\* ToBoolean taking the string '0' for falsy as well
IsFalsyOrZeroString(x) ==
    \/ x.k = "undefined"
    \/ x.k = "string" /\ x.v \in {<<>>, <<"0">>}
    \/ x.k = "number" /\ x.v = <<"0">>
    \/ x.k = "boolean" /\ x.v = <<"false">>

\* JavaScript ToBoolean on the values above: undefined, '', 0 and false are
\* falsy; every other value, the string '0' included, is truthy.
IsFalsy(x) ==
    \/ x.k = "undefined"
    \/ x.k = "string" /\ x.v = <<>>
    \/ x.k = "number" /\ x.v = <<"0">>
    \/ x.k = "boolean" /\ x.v = <<"false">>

EmptyObj == [x \in {} |-> Undefined]
SetKey(obj, key, val) == [x \in DOMAIN obj \cup {key} |-> IF x = key THEN val ELSE obj[x]]
DelKey(obj, key) == [x \in DOMAIN obj \ {key} |-> obj[x]]
\* obj[key] of JavaScript: undefined when the key is missing
Lookup(obj, key) == IF key \in DOMAIN obj THEN obj[key] ELSE Undefined

\* ------------------------------------------------------------------------
\* Node names
\* ------------------------------------------------------------------------
nDocument == <<"document">>
nDoc == <<"doc">>
nTopic == <<"topic">>
nTitle == <<"title">>
nP == <<"p">>
nText == <<"text">>
nImage == <<"image">>
nAlt == <<"alt">>
nAudio == <<"audio">>
nVideo == <<"video">>
nDesc == <<"desc">>
nMediaAutoplay == <<"media", "-", "autoplay">>
nMediaControls == <<"media", "-", "controls">>
nMediaLoop == <<"media", "-", "loop">>
nMediaMuted == <<"media", "-", "muted">>
nVideoPoster == <<"video", "-", "poster">>
nMediaTrack == <<"media", "-", "track">>
nMediaSource == <<"media", "-", "source">>
nU == <<"u">>
nB == <<"b">>

\* schema.ts (not part of the sources at hand): the inline formatting marks
IS_MARK == {<<"u">>, <<"s">>, <<"b">>, <<"sup">>, <<"sub">>}

\* schema.ts (not part of the sources at hand): hyphens become underscores
defaultNodeName(nodeName) ==
    [i \in 1..Len(nodeName) |-> IF nodeName[i] = "-" THEN "_" ELSE nodeName[i]]

\* type.replace(/_/g, '-')
getJditaNodeName(type) ==
    [i \in 1..Len(type) |-> IF type[i] = "_" THEN "-" ELSE type[i]]

\* ------------------------------------------------------------------------
\* Trees
\* ------------------------------------------------------------------------
\* JDita: { nodeName, attributes?, children?, content? }
JDita(nodeName, attributes, children, content) ==
    [nodeName |-> nodeName, attributes |-> attributes,
     children |-> children, content |-> content]

\* ProseMirror JSON node: { type, attrs?, content?, text?, marks? }
PM(type, attrs, content, text, marks) ==
    [type |-> type, attrs |-> attrs, content |-> content,
     text |-> text, marks |-> marks]

NoJDita == JDita(<<>>, None, None, None)
NoPM == PM(<<>>, None, None, None, None)

\* Outcome of a call of the forward transform on a source node:
\*   kind  "value" (val is the returned editor node), "undefined" (the call
\*         returned undefined) or "throw" (err names the exception);
\*   src   the source node as the call leaves it (the transform writes to
\*         the attribute objects of its input);
\*   alias the path (child indexes) from the source node to the descendant
\*         whose attributes object IS val.attrs, None when val.attrs is an
\*         object created by the transform.
Value(val, src, alias) ==
    [kind |-> "value", val |-> val, err |-> <<>>, src |-> src, alias |-> alias]
Undef(src) ==
    [kind |-> "undefined", val |-> NoPM, err |-> <<>>, src |-> src, alias |-> None]
Throw(err, src) ==
    [kind |-> "throw", val |-> NoPM, err |-> err, src |-> src, alias |-> None]

\* deleteUndefined that deletes nothing
keepUndefined(object) == object

\* function deleteUndefined(object)
deleteUndefined(object) ==
    [key \in {x \in DOMAIN object : object[x] # Undefined} |-> object[key]]

\* { ...object }: a fresh copy; spreading undefined gives {}
spread(attributes) == IF IsSome(attributes) THEN Get(attributes) ELSE EmptyObj

\* the marker's name attribute instead of its value attribute
markerName(child) ==
    IF IsSome(child.attributes) THEN Lookup(Get(child.attributes), "name") ELSE Undefined

\* child.attributes?.value
markerValue(child) ==
    IF IsSome(child.attributes) THEN Lookup(Get(child.attributes), "value") ELSE Undefined

\* result.attrs.parent = parent.nodeName, seen from the source tree: when
\* result.attrs is the attributes object of the source node at `path`, that
\* source node gets the key as well.
RECURSIVE setAttributeAt(_, _, _, _)
setAttributeAt(node, path, key, val) ==
    IF path = <<>>
    THEN [node EXCEPT !.attributes = Some(SetKey(Get(@), key, val))]
    ELSE [node EXCEPT !.children =
            Some([Get(@) EXCEPT ![Head(path)] = setAttributeAt(@, Tail(path), key, val)])]

\* The forEach of NODES.audio / NODES.video from child i on: acc.attrs is the
\* attrs object, acc.content the indexes of the children pushed to content.
RECURSIVE mediaForEach(_, _, _, _)
mediaForEach(children, i, acc, withPoster) ==
    IF i > Len(children) THEN acc
    ELSE LET child == children[i]
             set(key) == [acc EXCEPT !.attrs = SetKey(@, key, markerValue(child))]
             next ==
               IF child.nodeName = nMediaAutoplay THEN set("autoplay")
               ELSE IF child.nodeName = nMediaControls THEN set("controls")
               ELSE IF child.nodeName = nMediaLoop THEN set("loop")
               ELSE IF child.nodeName = nMediaMuted THEN set("muted")
               ELSE IF withPoster /\ child.nodeName = nVideoPoster THEN set("poster")
               ELSE IF child.nodeName \in {nDesc, nMediaTrack, nMediaSource}
                    THEN [acc EXCEPT !.content = Append(@, i)]
               ELSE acc
         IN mediaForEach(children, i + 1, next, withPoster)

RECURSIVE travel(_, _), defaultTravel(_), mapTravel(_, _, _, _)

\* children.map(child => travel(child, parent)) over the children at the
\* indexes idxs[j..], in order; the first exception ends the map.
\*   err: the exception, if any; vals: the editor nodes; kids: the children
\*   as the calls leave them; aliases: the alias of each editor node.
mapTravel(children, idxs, parent, j) ==
    IF j > Len(idxs)
    THEN [err |-> None, vals |-> <<>>, kids |-> children, aliases |-> <<>>]
    ELSE LET r == travel(children[idxs[j]], parent)
             kids1 == [children EXCEPT ![idxs[j]] = r.src]
         IN IF r.kind = "throw"
            THEN [err |-> Some(r.err), vals |-> <<>>, kids |-> kids1, aliases |-> <<>>]
            ELSE LET rest == mapTravel(kids1, idxs, parent, j + 1)
                 IN [err |-> rest.err, vals |-> <<r.val>> \o rest.vals,
                     kids |-> rest.kids, aliases |-> <<r.alias>> \o rest.aliases]

NoKids == [err |-> None, vals |-> <<>>, kids |-> <<>>, aliases |-> <<>>]

\* audio result that leaves attrs out when it has no keys
audioResultOmitting(type, attrs, content) ==
    PM(type, IF Cardinality(DOMAIN attrs) > 0 THEN Some(attrs) ELSE None,
       Some(content), None, None)

\* Line 77-79 of NODES.audio: result already holds attrs; the conditional
\* assigns the same object again.
audioResult(type, attrs, content) ==
    LET result == PM(type, Some(attrs), Some(content), None, None)
    IN IF Cardinality(DOMAIN attrs) > 0 THEN [result EXCEPT !.attrs = Some(attrs)] ELSE result

videoResult(type, attrs, content) == PM(type, Some(attrs), Some(content), None, None)

\* NODES.audio (withPoster = FALSE) and NODES.video (withPoster = TRUE)
media(value, withPoster) ==
    LET children == IF IsSome(value.children) THEN Get(value.children) ELSE <<>>
        acc == mediaForEach(children, 1,
                 [attrs |-> deleteUndefined(spread(value.attributes)), content |-> <<>>],
                 withPoster)
        kids == mapTravel(children, acc.content, value, 1)
        src == IF IsSome(value.children) THEN [value EXCEPT !.children = Some(kids.kids)] ELSE value
    IN IF IsSome(kids.err) THEN Throw(Get(kids.err), src)
       ELSE Value(IF withPoster THEN videoResult(value.nodeName, acc.attrs, kids.vals)
                  ELSE audioResult(value.nodeName, acc.attrs, kids.vals),
                  src, None)

NODES_audio(value) == media(value, FALSE)
NODES_video(value) == media(value, TRUE)

\* The condition of NODES.image: "alt" (the branch building the alt
\* attribute), "default" (falls back to defaultTravel), or "TypeError" (a
\* property of undefined is read: children[0] of an empty list).
imageCase(value) ==
    IF ~IsSome(value.children) THEN "default"
    ELSE IF Len(Get(value.children)) = 0 THEN "TypeError"
    ELSE IF Get(value.children)[1].nodeName # nAlt THEN "default"
    ELSE IF ~IsSome(Get(value.children)[1].children) THEN "default"
    ELSE IF Len(Get(Get(value.children)[1].children)) = 0 THEN "TypeError"
    ELSE IF Get(Get(value.children)[1].children)[1].nodeName # nText THEN "default"
    ELSE "alt"

NODES_image(value) ==
    LET c == imageCase(value)
    IN IF c = "TypeError" THEN Throw(<<"TypeError">>, value)
       ELSE IF c = "default" THEN defaultTravel(value)
       ELSE LET text == Get(Get(value.children)[1].children)[1]
                alt == IF IsSome(text.content) THEN Str(Get(text.content)) ELSE Undefined
                attrs == deleteUndefined(SetKey(spread(value.attributes), "alt", alt))
            IN Value(PM(nImage, Some(attrs), None, None, None), value, None)

NODES_text(value) == Value(PM(nText, Some(EmptyObj), None, value.content, None), value, None)

\* result = content[0]; result.marks = [{ type }]
markResult(child, type) == [child EXCEPT !.marks = Some(<<[type |-> type]>>)]

\* result = { type, attrs }; if (content) result.content = content
nodeResult(type, attrs, hasContent, content) ==
    PM(type, Some(attrs), IF hasContent THEN Some(content) ELSE None, None, None)

defaultTravel(value) ==
    LET hasChildren == IsSome(value.children)
        kids == IF hasChildren
                THEN mapTravel(Get(value.children),
                               [i \in 1..Len(Get(value.children)) |-> i], value, 1)
                ELSE NoKids
        src1 == IF hasChildren THEN [value EXCEPT !.children = Some(kids.kids)] ELSE value
    IN IF IsSome(kids.err) THEN Throw(Get(kids.err), src1)
       ELSE LET attrs == deleteUndefined(spread(value.attributes))
                \* attrs is value.attributes itself when the node has attributes
                src2 == IF IsSome(value.attributes)
                        THEN [src1 EXCEPT !.attributes = Some(attrs)] ELSE src1
                type == defaultNodeName(value.nodeName)
            IN IF value.nodeName \in IS_MARK
               THEN IF hasChildren /\ Len(kids.vals) = 1
                    THEN Value(markResult(kids.vals[1], type), src2,
                               IF IsSome(kids.aliases[1])
                               THEN Some(<<1>> \o Get(kids.aliases[1])) ELSE None)
                    ELSE Undef(src2)
               ELSE Value(nodeResult(type, attrs, hasChildren, kids.vals), src2,
                          IF IsSome(value.attributes) THEN Some(<<>>) ELSE None)

\* setParent with the parent's name normalized like a type
setParentNormalized(attrs, parent) ==
    SetKey(attrs, "parent", Str(defaultNodeName(parent.nodeName)))

\* result.attrs.parent = parent.nodeName
setParent(attrs, parent) == SetKey(attrs, "parent", Str(parent.nodeName))

travel(value, parent) ==
    LET r == IF value.nodeName = nAudio THEN NODES_audio(value)
             ELSE IF value.nodeName = nVideo THEN NODES_video(value)
             ELSE IF value.nodeName = nImage THEN NODES_image(value)
             ELSE IF value.nodeName = nText THEN NODES_text(value)
             ELSE defaultTravel(value)
    IN IF r.kind = "throw" THEN r
       ELSE IF value.nodeName = nDoc THEN r
       \* result.attrs of an undefined result
       ELSE IF r.kind = "undefined" THEN Throw(<<"TypeError">>, r.src)
       ELSE IF IsSome(r.val.attrs)
            THEN Value([r.val EXCEPT !.attrs = Some(setParent(Get(@), parent))],
                       IF IsSome(r.alias)
                       THEN setAttributeAt(r.src, Get(r.alias), "parent", Str(parent.nodeName))
                       ELSE r.src,
                       r.alias)
            ELSE r

\* document() without the check of the root's name
documentUnchecked(jdita) ==
    LET renamed == [jdita EXCEPT !.nodeName = nDoc]
    IN travel(renamed, renamed)

\* export function document(jdita)
document(jdita) ==
    IF jdita.nodeName = nDocument
    THEN LET renamed == [jdita EXCEPT !.nodeName = nDoc]
         IN travel(renamed, renamed)
    ELSE Throw(<<"Error", "jdita must be a document">>, jdita)

\* ------------------------------------------------------------------------
\* Reverse transform
\* ------------------------------------------------------------------------
\* Outcome of unTravel on an editor node: val the returned JDita node, pm the
\* editor node as the call leaves it (the generic branch deletes keys of
\* the attrs object it was given).
Returned(val, pm) == [kind |-> "value", val |-> val, err |-> <<>>, pm |-> pm]
Thrown(err, pm) == [kind |-> "throw", val |-> NoJDita, err |-> err, pm |-> pm]

\* An undefined entry of a children array (children[i] beyond the length)
UndefinedEntry == NoJDita
At(children, i) == IF i <= Len(children) THEN children[i] ELSE UndefinedEntry

\* The attribute skeleton of a marker node of the video and audio branches:
\* seven keys, only value is set.
markerNode(nodeName, value) ==
    JDita(nodeName,
          Some([key \in {"dir", "xml:lang", "translate", "name", "value", "outputclass", "class"}
                  |-> IF key = "value" THEN value ELSE Undefined]),
          None, None)

\* if (attributes.x !== undefined) allChildren.push(marker)
pushMarker(allChildren, attributes, key, nodeName) ==
    IF Lookup(attributes, key) # Undefined
    THEN Append(allChildren, markerNode(nodeName, Lookup(attributes, key)))
    ELSE allChildren

videoAttributes(attributes) ==
    [key \in {"props", "dir", "xml:lang", "translate", "id", "conref",
              "outputclass", "class", "width", "height"}
       |-> IF key \in {"outputclass", "width", "height"} THEN Lookup(attributes, key)
           ELSE Undefined]

audioAttributes(attributes) ==
    [key \in {"class", "conref", "xml:lang", "dir", "id", "outputclass", "props", "translate"}
       |-> IF key = "outputclass" THEN Lookup(attributes, key) ELSE Undefined]

\* video children with the controls marker pushed before the poster marker
videoChildrenControlsFirst(children, attributes) ==
    LET c0 == <<At(children, 1)>>
        c1 == pushMarker(c0, attributes, "controls", nMediaControls)
        c2 == pushMarker(c1, attributes, "poster", nVideoPoster)
        c3 == pushMarker(c2, attributes, "autoplay", nMediaAutoplay)
        c4 == pushMarker(c3, attributes, "loop", nMediaLoop)
        c5 == pushMarker(c4, attributes, "muted", nMediaMuted)
    IN Append(c5, At(children, 2))

videoChildren(children, attributes) ==
    LET c0 == <<At(children, 1)>>
        c1 == pushMarker(c0, attributes, "poster", nVideoPoster)
        c2 == pushMarker(c1, attributes, "controls", nMediaControls)
        c3 == pushMarker(c2, attributes, "autoplay", nMediaAutoplay)
        c4 == pushMarker(c3, attributes, "loop", nMediaLoop)
        c5 == pushMarker(c4, attributes, "muted", nMediaMuted)
    IN Append(c5, At(children, 2))

audioChildren(children, attributes) ==
    LET c0 == <<At(children, 1)>>
        c1 == pushMarker(c0, attributes, "controls", nMediaControls)
        c2 == pushMarker(c1, attributes, "autoplay", nMediaAutoplay)
        c3 == pushMarker(c2, attributes, "loop", nMediaLoop)
        c4 == pushMarker(c3, attributes, "muted", nMediaMuted)
        c5 == pushMarker(c4, attributes, "source", nMediaSource)
    IN Append(c5, At(children, 2))

\* for (const key in attributes) if (!attributes[key]) delete attributes[key]
deleteFalsy(attributes) ==
    [key \in {x \in DOMAIN attributes : ~IsFalsy(attributes[x])} |-> attributes[key]]

RECURSIVE unTravel(_), mapUnTravel(_, _)

\* content.map(unTravel) from entry j on; the first exception ends the map.
mapUnTravel(content, j) ==
    IF j > Len(content)
    THEN [err |-> None, vals |-> <<>>, content |-> content]
    ELSE LET r == unTravel(content[j])
             content1 == [content EXCEPT ![j] = r.pm]
         IN IF r.kind = "throw"
            THEN [err |-> Some(r.err), vals |-> <<>>, content |-> content1]
            ELSE LET rest == mapUnTravel(content1, j + 1)
                 IN [err |-> rest.err, vals |-> <<r.val>> \o rest.vals,
                     content |-> rest.content]

\* export function unTravel(prosemirrorDocument)
unTravel(prosemirrorDocument) ==
    LET hasContent == IsSome(prosemirrorDocument.content)
        kids == IF hasContent THEN mapUnTravel(Get(prosemirrorDocument.content), 1)
                ELSE [err |-> None, vals |-> <<>>, content |-> <<>>]
        pm1 == IF hasContent
               THEN [prosemirrorDocument EXCEPT !.content = Some(kids.content)]
               ELSE prosemirrorDocument
        attributes == spread(prosemirrorDocument.attrs)
        nodeName == getJditaNodeName(prosemirrorDocument.type)
    IN IF IsSome(kids.err) THEN Thrown(Get(kids.err), pm1)
       ELSE IF nodeName \in {nVideo, nAudio}
       THEN \* children[0] of undefined children
            IF ~hasContent THEN Thrown(<<"TypeError">>, pm1)
            ELSE IF nodeName = nVideo
            THEN Returned(JDita(nodeName, Some(videoAttributes(attributes)),
                                Some(videoChildren(kids.vals, attributes)), None), pm1)
            ELSE Returned(JDita(nodeName, Some(audioAttributes(attributes)),
                                Some(audioChildren(kids.vals, attributes)), None), pm1)
       ELSE IF nodeName = nText
       THEN Returned(JDita(nodeName, None, None, prosemirrorDocument.text), pm1)
       ELSE Returned(JDita(nodeName, Some(deleteFalsy(attributes)),
                           IF hasContent THEN Some(kids.vals) ELSE None, None),
                     \* attributes is prosemirrorDocument.attrs itself when it exists
                     IF IsSome(prosemirrorDocument.attrs)
                     THEN [pm1 EXCEPT !.attrs = Some(deleteFalsy(attributes))]
                     ELSE pm1)

\* ------------------------------------------------------------------------
\* Inputs
\* ------------------------------------------------------------------------
MaxChildren == 2        \* children of a topic
MaxNest == 2            \* nesting depth of inline marks
MaxMediaChildren == 3   \* children of an audio or video node

SeqUpTo(n, S) == UNION {[1..k -> S] : k \in 0..n}

text(s) == JDita(nText, None, None, Some(s))
Texts == {text(<<"Overview">>), text(<<"hi">>)}

\* attribute objects over the keys id and count; a key may be missing, or
\* present with the value undefined
TopicObjects ==
    {o \in UNION {[D -> {Str(<<"intro", "-", "product">>), Str(<<"0">>), Str(<<>>), Undefined}]
                    : D \in SUBSET {"id", "count"}} :
        /\ "id" \in DOMAIN o => o["id"] \in {Str(<<"intro", "-", "product">>), Undefined}
        /\ "count" \in DOMAIN o => o["count"] \in {Str(<<"0">>), Str(<<>>)}}
TopicAttributes == {None} \cup {Some(o) : o \in TopicObjects}

Sections ==
    {JDita(h[1], h[2], c, None) :
        h \in {<<nTitle, Some(EmptyObj)>>, <<nMediaTrack, None>>},
        c \in {None, Some(<<>>), Some(<<text(<<"Overview">>)>>)}}

Topics ==
    {JDita(nTopic, a, c, None) :
        a \in TopicAttributes,
        c \in {None} \cup {Some(k) : k \in SeqUpTo(MaxChildren, Sections)}}

\* inline content: text, or a mark node around no, one or two inline nodes
RECURSIVE Inline(_)
Inline(d) ==
    IF d = 0 THEN Texts
    ELSE Texts \cup
         {JDita(m, None, c, None) :
            m \in {nU, nB},
            c \in {None, Some(<<>>)}
                  \cup {Some(<<x>>) : x \in Inline(d - 1)}
                  \cup {Some(<<x, x>>) : x \in Inline(d - 1)}}

Paragraphs ==
    {JDita(nP, a, c, None) :
        a \in {None, Some([id |-> Str(<<"p1">>)])},
        c \in {Some(<<x>>) : x \in Inline(MaxNest)}
              \cup {Some(<<x, text(<<"hi">>)>>) : x \in Inline(MaxNest)}}

Alts ==
    {JDita(nAlt, None, c, None) :
        c \in {None, Some(<<>>), Some(<<text(<<"Logo">>)>>),
               Some(<<text(<<"Logo">>), text(<<"hi">>)>>),
               Some(<<JDita(nB, None, Some(<<text(<<"Logo">>)>>), None)>>)}}

Images ==
    {JDita(nImage, a, c, None) :
        a \in {None, Some([href |-> Str(<<"a.png">>)]),
               Some([href |-> Str(<<"a.png">>), scope |-> Undefined])},
        c \in {None, Some(<<>>), Some(<<text(<<"Logo">>)>>)}
              \cup {Some(<<x>>) : x \in Alts}
              \cup {Some(<<x, text(<<"hi">>)>>) : x \in Alts}}

Figures == Images \cup {JDita(nP, None, Some(<<x>>), None) : x \in Images}

marker(nodeName, value) == JDita(nodeName, Some([value |-> Str(value)]), None, None)

MediaChildrenA ==
    {marker(nMediaControls, <<"true">>), marker(nMediaLoop, <<"false">>),
     marker(nVideoPoster, <<"p.png">>),
     JDita(nDesc, Some(EmptyObj), Some(<<text(<<"hi">>)>>), None),
     marker(nMediaSource, <<"a.mp4">>)}

MediaChildrenB ==
    {marker(nMediaAutoplay, <<"true">>), marker(nMediaMuted, <<"false">>),
     JDita(nMediaControls, None, None, None),
     JDita(nMediaTrack, None, None, None),
     JDita(nP, None, Some(<<text(<<"hi">>)>>), None)}

Media ==
    {JDita(n, a, c, None) :
        n \in {nAudio, nVideo},
        a \in {None, Some([outputclass |-> Undefined]), Some([outputclass |-> Str(<<"wide">>)])},
        c \in {None}
              \cup {Some(k) : k \in SeqUpTo(MaxMediaChildren, MediaChildrenA)}
              \cup {Some(k) : k \in SeqUpTo(MaxMediaChildren, MediaChildrenB)}}

\* a node named doc below the root
Nested == {JDita(nDoc, a, Some(<<text(<<"hi">>)>>), None) : a \in {None, Some(EmptyObj)}}

Bodies == Topics \cup Paragraphs \cup Figures \cup Media \cup Nested

\* the documents handed to document(), and nodes that are not documents
Documents ==
    {JDita(nDocument, None, Some(<<b>>), None) : b \in Bodies}
    \cup {JDita(nDocument, a, None, None) : a \in TopicAttributes}
Inputs == Documents \cup Paragraphs \cup Figures
          \cup {JDita(nDoc, None, Some(<<b>>), None) : b \in Figures}

\* editor documents that do not come from document(): the editor's content
\* after editing
pmText(s) == PM(nText, Some(EmptyObj), None, Some(s), None)
EditedObjects ==
    UNION {[D -> {Str(<<"0">>), Str(<<>>), Str(<<"x">>), Num(<<"0">>),
                  Bool(<<"false">>), Undefined}]
             : D \in SUBSET {"count"}}
    \cup {[id |-> Str(<<"x">>), count |-> v] : v \in {Str(<<"0">>), Num(<<"0">>)}}
Edited ==
    {PM(t, a, c, None, None) :
        t \in {<<"p">>, <<"media", "_", "track">>},
        a \in {None} \cup {Some(o) : o \in EditedObjects},
        c \in {None, Some(<<pmText(<<"hi">>)>>)}}

\* audio and video editor nodes: any set of the playback attributes, a key
\* holding undefined or the empty string, and none to three content entries
MediaObjects ==
    {[key \in D |-> Str(<<key, ".", "v">>)] :
        D \in SUBSET {"poster", "controls", "autoplay", "loop", "muted", "source"}}
    \cup {[controls |-> Undefined, loop |-> Str(<<"true">>)],
          [controls |-> Str(<<>>), muted |-> Bool(<<"false">>)],
          [outputclass |-> Str(<<"wide">>), poster |-> Str(<<"p.png">>)]}
EditedMedia ==
    {PM(t, a, c, None, None) :
        t \in {nAudio, nVideo},
        a \in {None} \cup {Some(o) : o \in MediaObjects},
        c \in {None, Some(<<>>),
               Some(<<PM(nDesc, Some(EmptyObj), Some(<<pmText(<<"hi">>)>>), None, None)>>),
               Some(<<PM(nDesc, Some(EmptyObj), Some(<<pmText(<<"hi">>)>>), None, None),
                      PM(<<"media", "_", "source">>, Some([value |-> Str(<<"a.mp4">>)]),
                         None, None, None)>>),
               Some(<<PM(nDesc, Some(EmptyObj), None, None, None),
                      PM(<<"media", "_", "source">>, None, None, None, None),
                      PM(<<"media", "_", "track">>, None, None, None, None)>>)}}

\* ------------------------------------------------------------------------
\* GitHub integration: request.ts. A URL, a query string and a stored JSON
\* text are strings, that is sequences of tokens; "?", "&", "=" and "#" are
\* tokens of their own. Percent-encoding is not modelled.
\* ------------------------------------------------------------------------
validKeys == {<<"ghrepo">>, <<"source">>, <<"branch">>, <<"referer">>}

\* s.indexOf(token) + 1, 0 when the token does not occur
IndexOf(s, token) ==
    IF \E i \in 1..Len(s) : s[i] = token
    THEN CHOOSE i \in 1..Len(s) : s[i] = token /\ \A j \in 1..(i - 1) : s[j] # token
    ELSE 0

\* s.split(separator)
RECURSIVE split(_, _)
split(s, separator) ==
    LET i == IndexOf(s, separator)
    IN IF i = 0 THEN <<s>>
       ELSE <<SubSeq(s, 1, i - 1)>> \o split(SubSeq(s, i + 1, Len(s)), separator)

\* one "key=value" piece of a query string; a piece without "=" has the
\* empty value
entry(piece) ==
    LET i == IndexOf(piece, "=")
    IN IF i = 0 THEN [key |-> piece, value |-> <<>>]
       ELSE [key |-> SubSeq(piece, 1, i - 1), value |-> SubSeq(piece, i + 1, Len(piece))]

\* new URLSearchParams(init).entries(): a leading "?" is dropped, the rest is
\* cut at every "&", empty pieces are skipped
URLSearchParams(init) ==
    LET query == IF init # <<>> /\ init[1] = "?" THEN Tail(init) ELSE init
        pieces == SelectSeq(split(query, "&"), LAMBDA piece : piece # <<>>)
    IN [i \in 1..Len(pieces) |-> entry(pieces[i])]

\* params.has(name)
has(params, name) == \E i \in 1..Len(params) : params[i].key = name

\* params.find(param => param.key === name)?.value, and params.get(name):
\* the value of the first entry of that name, None when there is none
get(params, name) ==
    IF has(params, name)
    THEN Some(params[CHOOSE i \in 1..Len(params) :
                        /\ params[i].key = name
                        /\ \A j \in 1..(i - 1) : params[j].key # name].value)
    ELSE None

\* window.location.search: the part of the URL from its first "?" to the
\* fragment, empty when the URL has no query or an empty one
search(url) ==
    LET f == IndexOf(url, "#")
        u == IF f = 0 THEN url ELSE SubSeq(url, 1, f - 1)
        q == IndexOf(u, "?")
    IN IF q = 0 \/ q = Len(u) THEN <<>> ELSE SubSeq(u, q, Len(u))

isOAuthCodeParam(key) == key = <<"code">> \/ key = <<"error">>

\* the two shapes of what getAndValidateParameterValues returns
Status(status) == [kind |-> "string", status |-> status, parameters |-> <<>>]
Parameters(parameters) == [kind |-> "object", status |-> "", parameters |-> parameters]

getAndValidateParameterValues(url) ==
    LET urlParts == split(url, "?")
    IN IF Len(urlParts) = 1 THEN Status("noParams")
       ELSE
        LET parameters == URLSearchParams(urlParts[2])
            hasMissingReferer == ~has(parameters, <<"referer">>)
            hasMissingValues == \E i \in 1..Len(parameters) : parameters[i].value = <<>>
            hasInvalidParams == \E key \in validKeys : ~has(parameters, key)
        IN IF \E i \in 1..Len(parameters) : isOAuthCodeParam(parameters[i].key)
           THEN Parameters(parameters)
           ELSE IF hasMissingReferer THEN Status("refererMissing")
           ELSE IF hasMissingValues \/ hasInvalidParams THEN Status("invalidParams")
           ELSE Parameters(parameters)

\* JSON.stringify of a string and of the array of { key, value } objects
quoted(s) == <<"\"">> \o s \o <<"\"">>
stringifyItem(param) ==
    <<"{", "\"key\"", ":">> \o quoted(param.key)
        \o <<",", "\"value\"", ":">> \o quoted(param.value) \o <<"}">>
RECURSIVE stringifyItems(_)
stringifyItems(parameters) ==
    IF parameters = <<>> THEN <<>>
    ELSE IF Len(parameters) = 1 THEN stringifyItem(parameters[1])
    ELSE stringifyItem(parameters[1]) \o <<",">> \o stringifyItems(Tail(parameters))
JSON_stringify(parameters) == <<"[">> \o stringifyItems(parameters) \o <<"]">>

\* JSON.parse of such a text: the items between "[" and "]", each read as
\* { "key" : "...", "value" : "..." }
RECURSIVE parseItems(_)
parseItems(s) ==
    IF s = <<>> THEN <<>>
    ELSE
        LET a == SubSeq(s, 5, Len(s))
            i == IndexOf(a, "\"")
            b == SubSeq(a, i + 5, Len(a))
            j == IndexOf(b, "\"")
            rest == SubSeq(b, j + 2, Len(b))
        IN <<[key |-> SubSeq(a, 1, i - 1), value |-> SubSeq(b, 1, j - 1)]>>
              \o parseItems(IF rest = <<>> THEN rest ELSE Tail(rest))
JSON_parse(s) == parseItems(SubSeq(s, 2, Len(s) - 1))

\* a string or null taken as a condition
truthy(optional) == optional # None /\ optional[1] # <<>>

\* showToast(message, type) of showNotification; 'noParams' shows nothing
showNotification(parameters) ==
    IF parameters = "invalidParams" THEN Some(<<"Your request is invalid.", "error">>)
    ELSE IF parameters = "refererMissing" THEN Some(<<"Missing referer parameter.", "error">>)
    ELSE IF parameters = "authenticated" THEN Some(<<"You are authenticated.", "success">>)
    ELSE None

\* the values assigned to window.location.href
redirectToGitHubOAuth ==
    <<"https://github.com/login/oauth/authorize", "?", "clientID.id", "=", "clientID.value">>
showErrorPage == <<"serverURL.value", "auth-error.html">>

handleInvalidRequest(storage, url) ==
    IF truthy(storage.userParams)
    THEN LET storedReferer == get(JSON_parse(storage.userParams[1]), <<"referer">>)
         IN IF truthy(storedReferer) THEN storedReferer[1] ELSE showErrorPage
    ELSE LET referer == get(URLSearchParams(search(url)), <<"referer">>)
         IN IF truthy(referer) THEN referer[1] ELSE showErrorPage

\* returnParams[param.key] = param.value for every stored param, in order:
\* a later entry of a key replaces an earlier one
returnParams(stored) ==
    [key \in {stored[i].key : i \in 1..Len(stored)} |->
        stored[CHOOSE i \in 1..Len(stored) :
                  /\ stored[i].key = key
                  /\ \A j \in (i + 1)..Len(stored) : stored[j].key # key].value]

\* What processRequest leaves behind: the returned value, localStorage, the
\* fact that it wrote userParams, the value assigned to window.location.href,
\* the toast shown, the code handed to exchangeOAuthCodeForAccessToken, and
\* its local storedParams.
UndefinedResult == [kind |-> "undefined", val |-> <<>>]
Outcome(storage) ==
    [returned |-> UndefinedResult, storage |-> storage, wrote |-> FALSE, href |-> None,
     toast |-> None, exchange |-> None, storedParams |-> None]

processRequest(currentUrl, storage) ==
    LET parameters == getAndValidateParameterValues(currentUrl)
        list == parameters.parameters
        out == Outcome(storage)
    IN IF parameters.kind = "string"
       THEN [out EXCEPT
               !.href = IF parameters.status = "invalidParams"
                        THEN Some(handleInvalidRequest(storage, currentUrl))
                        ELSE IF parameters.status = "refererMissing"
                        THEN Some(showErrorPage)
                        ELSE None,
               !.toast = showNotification(parameters.status)]
       ELSE IF ~\E i \in 1..Len(list) : isOAuthCodeParam(list[i].key)
       THEN [out EXCEPT
               !.storage = [storage EXCEPT !.userParams = Some(JSON_stringify(list))],
               !.wrote = TRUE,
               !.href = Some(redirectToGitHubOAuth)]
       ELSE
        LET storedParams == storage.userParams
            errorParam == get(list, <<"error">>)
            codeParam == get(list, <<"code">>)
            read == [out EXCEPT !.storedParams = storedParams]
        IN IF ~truthy(storedParams) THEN [read EXCEPT !.href = Some(showErrorPage)]
           ELSE IF errorParam # None THEN read
           ELSE IF codeParam = None THEN read
           ELSE [read EXCEPT
                   !.exchange = codeParam,
                   !.toast = showNotification("authenticated"),
                   !.returned = [kind |-> "object",
                                 val |-> returnParams(JSON_parse(storedParams[1]))]]

\* The URLs a page is loaded with: the bare address, a query made of any of
\* the pieces below joined by "&", then nothing, a fragment, or a second "?"
\* with more text; and an address whose only "?" is inside its fragment.
RECURSIVE join(_, _)
join(pieces, separator) ==
    IF pieces = <<>> THEN <<>>
    ELSE IF Len(pieces) = 1 THEN pieces[1]
    ELSE pieces[1] \o <<separator>> \o join(Tail(pieces), separator)

kv(key, value) == <<key, "=">> \o value
address == <<"https://petal.example/">>
repo == kv("ghrepo", <<"o/r">>)
fork == kv("ghrepo", <<"o/fork">>)
source == kv("source", <<"a.xml">>)
branch == kv("branch", <<"main">>)
referer == kv("referer", <<"https://site/">>)
code == kv("code", <<"c1">>)
error == kv("error", <<"access_denied">>)
Queries ==
    {<<>>,
     <<repo, source, branch, referer>>,
     <<repo, fork, source, branch, referer>>,
     <<repo, source, branch, referer, kv("extra", <<"x">>)>>,
     <<repo, source, branch, kv("referer", <<>>)>>,
     <<repo, kv("source", <<>>), branch, referer>>,
     <<repo, source, branch>>,
     <<repo, referer>>,
     <<code>>,
     <<error>>,
     <<code, error>>,
     <<repo, source, branch, referer, code>>,
     <<<<"code">>>>}
Tails == {<<>>, <<"#", "top">>, <<"?", "x", "=", "1", "&", "code", "=", "c2">>}
URLs ==
    {address, address \o <<"#", "/edit", "?", "code", "=", "c1">>}
    \cup {address \o <<"?">> \o join(q, "&") \o t : q \in Queries, t \in Tails}

\* the access tokens the exchange can resolve with
AccessTokens == {<<"gho_1">>}

\* ------------------------------------------------------------------------
\* State machine: a document is loaded with document(), the editor holds
\* the editor tree, and saving calls unTravel() on it.
\* ------------------------------------------------------------------------
VARIABLES
    pc,      \* "load": document() is to be called; "edit": the editor holds pm;
             \* "failed": document() threw; "saved": unTravel() was called
    input,   \* the source tree as it was handed to document() (history)
    jdita,   \* the source tree object
    loaded,  \* outcome of document(): [kind, val, err]
    pm,      \* the editor tree object
    handed,  \* the editor tree as it was handed to unTravel() (history)
    saved,   \* outcome of unTravel(): [kind, val, err]
    url,          \* window.location.href of the page that was loaded
    localStorage, \* the keys userParams and token, each None or Some(string)
    returned,     \* what processRequest() returned on this page
    href,         \* the value processRequest() assigned to window.location.href
    toast,        \* the toast processRequest() showed
    exchange,     \* the code of the token exchange in flight on this page
    storedParams, \* what processRequest() read from userParams on this page
    writer,       \* the URL of the page that last wrote userParams (history)
    loadJsonDoc   \* the promise of the demo page: "none", "pending", "resolved", "rejected"

docvars == <<pc, input, jdita, loaded, pm, handed, saved>>
reqvars == <<url, localStorage, returned, href, toast, exchange, storedParams, writer,
             loadJsonDoc>>
vars == <<pc, input, jdita, loaded, pm, handed, saved, url, localStorage, returned, href,
          toast, exchange, storedParams, writer, loadJsonDoc>>

\* no page has been loaded, localStorage is empty
RequestIdle ==
    /\ url = <<>>
    /\ localStorage = [userParams |-> None, token |-> None]
    /\ returned = UndefinedResult
    /\ href = None
    /\ toast = None
    /\ exchange = None
    /\ storedParams = None
    /\ writer = None
    /\ loadJsonDoc = "none"


Init ==
    /\ RequestIdle
    /\ loaded = [kind |-> "none", val |-> NoPM, err |-> <<>>]
    /\ saved = [kind |-> "none", val |-> NoJDita, err |-> <<>>]
    /\ handed = NoPM
    /\ \/ /\ pc = "load"
          /\ jdita \in Inputs
          /\ input = jdita
          /\ pm = NoPM
       \/ /\ pc = "edit"
          /\ jdita = NoJDita
          /\ input = NoJDita
          /\ pm \in Edited \cup EditedMedia

Document ==
    /\ pc = "load"
    /\ LET r == document(jdita)
       IN /\ loaded' = [kind |-> r.kind, val |-> r.val, err |-> r.err]
          /\ jdita' = r.src
          /\ pm' = r.val
          /\ pc' = IF r.kind = "value" THEN "edit" ELSE "failed"
    /\ UNCHANGED <<input, handed, saved>>
    /\ UNCHANGED reqvars

UnTravel ==
    /\ pc = "edit"
    /\ LET r == unTravel(pm)
       IN /\ saved' = [kind |-> r.kind, val |-> r.val, err |-> r.err]
          /\ pm' = r.pm
    /\ handed' = pm
    /\ pc' = "saved"
    /\ UNCHANGED <<input, jdita, loaded>>
    /\ UNCHANGED reqvars

Next == Document \/ UnTravel

Spec == Init /\ [][Next]_vars

\* ------------------------------------------------------------------------
\* State machine of the demo page: every page load calls processRequest()
\* with the page's URL; the token exchange it starts and the document load
\* of the page settle later.
\* ------------------------------------------------------------------------
RequestInit ==
    /\ RequestIdle
    /\ pc = "request"
    /\ input = NoJDita
    /\ jdita = NoJDita
    /\ pm = NoPM
    /\ handed = NoPM
    /\ loaded = [kind |-> "none", val |-> NoPM, err |-> <<>>]
    /\ saved = [kind |-> "none", val |-> NoJDita, err |-> <<>>]

\* a page load: const urlParams = processRequest()
ProcessRequest ==
    /\ \E currentUrl \in URLs :
        LET r == processRequest(currentUrl, localStorage)
        IN /\ url' = currentUrl
           /\ localStorage' = r.storage
           /\ returned' = r.returned
           /\ href' = r.href
           /\ toast' = r.toast
           /\ exchange' = r.exchange
           /\ storedParams' = r.storedParams
           /\ writer' = IF r.wrote THEN Some(currentUrl) ELSE writer
    /\ loadJsonDoc' = "pending"
    /\ UNCHANGED docvars

\* exchangeOAuthCodeForAccessToken(code).then(token => localStorage.setItem('token', token))
ExchangeResolved ==
    /\ exchange # None
    /\ \E token \in AccessTokens :
        localStorage' = [localStorage EXCEPT !.token = Some(token)]
    /\ exchange' = None
    /\ UNCHANGED <<url, returned, href, toast, storedParams, writer, loadJsonDoc>>
    /\ UNCHANGED docvars

\* .catch(e => console.error(e))
ExchangeRejected ==
    /\ exchange # None
    /\ exchange' = None
    /\ UNCHANGED <<url, localStorage, returned, href, toast, storedParams, writer, loadJsonDoc>>
    /\ UNCHANGED docvars

\* loadJsonDoc.then(...): the editor view is created
LoadResolved ==
    /\ loadJsonDoc = "pending"
    /\ loadJsonDoc' = "resolved"
    /\ UNCHANGED <<url, localStorage, returned, href, toast, exchange, storedParams, writer>>
    /\ UNCHANGED docvars

\* loadJsonDoc.catch(...): the fallback page, which calls localStorage.clear()
LoadRejected ==
    /\ loadJsonDoc = "pending"
    /\ loadJsonDoc' = "rejected"
    /\ localStorage' = [userParams |-> None, token |-> None]
    /\ UNCHANGED <<url, returned, href, toast, exchange, storedParams, writer>>
    /\ UNCHANGED docvars

RequestNext ==
    ProcessRequest \/ ExchangeResolved \/ ExchangeRejected \/ LoadResolved \/ LoadRejected

RequestSpec == RequestInit /\ [][RequestNext]_vars

\* ------------------------------------------------------------------------
\* Properties
\* ------------------------------------------------------------------------
IsGeneric(n) == n.nodeName \notin ({nAudio, nVideo, nImage, nText} \cup IS_MARK)

\* the attributes of a source node that have a value
DefinedAttributes(n) ==
    LET o == IF n.attributes = None THEN EmptyObj ELSE n.attributes[1]
    IN [key \in {x \in DOMAIN o : o[x].k # "undefined"} |-> o[key]]

\* the child of the document root and the editor node made from it
HasBody == loaded.kind = "value" /\ input.children # None /\ Len(input.children[1]) = 1
Body == input.children[1][1]
EditorBody == loaded.val.content[1][1]

\* C1: document() on a node whose nodeName is not 'document' throws the
\* error 'jdita must be a document' and returns no editor tree.
C1_NotADocument ==
    (pc # "load" /\ input # NoJDita /\ input.nodeName # nDocument)
        => /\ pc = "failed"
           /\ loaded.kind = "throw"
           /\ loaded.err = <<"Error", "jdita must be a document">>
           /\ loaded.val = NoPM

C1_Witness ==
    /\ pc = "failed"
    /\ input.nodeName = nP
    /\ loaded.err = <<"Error", "jdita must be a document">>

\* The generic rule, node by node: e is the editor node made from the source
\* node n.  A generic node gives its normalized name, its defined attributes
\* (next to the parent key) and one content entry per child, in order, content
\* being there exactly when the node has a children list; a text leaf gives
\* its text; a mark node stands for its only child.
RECURSIVE GenericRule(_, _, _)
GenericRule(n, e, isRoot) ==
    IF IsGeneric(n)
    THEN /\ e.type = (IF isRoot THEN nDoc ELSE defaultNodeName(n.nodeName))
         /\ e.attrs # None
         /\ DelKey(e.attrs[1], "parent") = DefinedAttributes(n)
         /\ e.text = None
         /\ e.marks = None
         /\ (e.content # None) <=> (n.children # None)
         /\ n.children # None =>
              /\ Len(e.content[1]) = Len(n.children[1])
              /\ \A i \in 1..Len(n.children[1]) :
                    GenericRule(n.children[1][i], e.content[1][i], FALSE)
    ELSE IF n.nodeName = nText
    THEN e.type = nText /\ e.text = n.content /\ e.content = None
    ELSE IF n.nodeName \in IS_MARK
    THEN GenericRule(n.children[1][1], [e EXCEPT !.marks = None], FALSE)
    ELSE e.type = n.nodeName

SampleDocument ==
    [nodeName |-> <<"document">>, attributes |-> None, content |-> None,
     children |-> Some(<<
       [nodeName |-> <<"topic">>, content |-> None,
        attributes |-> Some([id |-> Str(<<"intro", "-", "product">>)]),
        children |-> Some(<<
          [nodeName |-> <<"title">>, content |-> None, attributes |-> Some(EmptyObj),
           children |-> Some(<<
             [nodeName |-> <<"text">>, attributes |-> None, children |-> None,
              content |-> Some(<<"Overview">>)] >>)] >>)] >>)]

SampleEditorTree ==
    [type |-> <<"doc">>, attrs |-> Some(EmptyObj), text |-> None, marks |-> None,
     content |-> Some(<<
       [type |-> <<"topic">>, text |-> None, marks |-> None,
        attrs |-> Some([id |-> Str(<<"intro", "-", "product">>), parent |-> Str(<<"doc">>)]),
        content |-> Some(<<
          [type |-> <<"title">>, text |-> None, marks |-> None,
           attrs |-> Some([parent |-> Str(<<"topic">>)]),
           content |-> Some(<<
             [type |-> <<"text">>, text |-> Some(<<"Overview">>), marks |-> None,
              attrs |-> Some([parent |-> Str(<<"title">>)]),
              content |-> None] >>)] >>)] >>)]

\* C2: every generically handled node of a loaded document follows the
\* generic rule { type, attrs, content? }, and the sample document gives
\* the documented editor tree.
C2_GenericRule ==
    loaded.kind = "value" =>
        /\ GenericRule(input, loaded.val, TRUE)
        /\ input = SampleDocument => loaded.val = SampleEditorTree

C2_Witness == pc = "edit" /\ input = SampleDocument /\ loaded.val = SampleEditorTree

\* the children of an audio or video node that are kept as content
IsRetained(c) == c.nodeName \in {nDesc, nMediaTrack, nMediaSource}
Retained(n) == IF n.children = None THEN <<>> ELSE SelectSeq(n.children[1], IsRetained)

\* The parent rule, node by node: e is the editor node made from the source
\* node n, p the name its parent key must hold.  The editor node made from
\* a mark node is the one made from the mark's only child: with
\* markIsParent that child must name the mark node, without it the node the
\* mark node itself would name.  With docToo a node named doc must carry
\* the key like any other, without it such a node has no parent key.
RECURSIVE ParentRule(_, _, _, _, _)
ParentRule(n, e, p, markIsParent, docToo) ==
    IF n.nodeName \in IS_MARK
    THEN ParentRule(n.children[1][1], e,
                    IF markIsParent THEN n.nodeName ELSE p, markIsParent, docToo)
    ELSE /\ e.attrs # None
         /\ IF n.nodeName # nDoc \/ docToo
            THEN "parent" \in DOMAIN e.attrs[1] /\ e.attrs[1]["parent"] = Str(p)
            ELSE "parent" \notin DOMAIN e.attrs[1]
         /\ e.content # None =>
              LET kids == IF n.nodeName \in {nAudio, nVideo} THEN Retained(n)
                          ELSE n.children[1]
              IN /\ Len(kids) = Len(e.content[1])
                 /\ \A i \in 1..Len(kids) :
                       ParentRule(kids[i], e.content[1][i], n.nodeName, markIsParent, docToo)

\* C3 as claimed: every non-root editor node names in attrs.parent its
\* immediate source parent: the root's children the root (under either of
\* its names, 'document' or 'doc'), the child standing for a mark node the
\* mark node.
C3_Original ==
    (/\ loaded.kind = "value" /\ input.children # None
     /\ \A i \in 1..Len(input.children[1]) : input.children[1][i].nodeName # nDoc) =>
        \A i \in 1..Len(input.children[1]) :
            \/ ParentRule(input.children[1][i], loaded.val.content[1][i],
                          input.nodeName, TRUE, TRUE)
            \/ ParentRule(input.children[1][i], loaded.val.content[1][i],
                          nDoc, TRUE, TRUE)

\* C3 as amended: every non-root editor node whose source node is not named
\* doc holds in attrs.parent the source name (hyphens kept) of the parent of
\* the source node it stands for, where the root is named 'doc' and the
\* node standing for a mark node (or a chain of them) names the parent of
\* the outermost mark node; a non-root node named doc gets no parent key.
C3_ParentOfReplacedNode ==
    (loaded.kind = "value" /\ input.children # None) =>
        \A i \in 1..Len(input.children[1]) :
            ParentRule(input.children[1][i], loaded.val.content[1][i],
                       nDoc, FALSE, FALSE)

C3_Witness ==
    /\ HasBody
    /\ Body.nodeName = nP
    /\ Body.children[1][1].nodeName = nU
    /\ Body.children[1][1].children = Some(<<text(<<"hi">>)>>)
    /\ EditorBody.attrs[1]["parent"] = Str(nDoc)
    /\ EditorBody.content[1][1].type = nText
    /\ EditorBody.content[1][1].attrs[1]["parent"] = Str(nP)

\* the marks of the editor node that stands for n, were every mark node to
\* append its mark to the marks of its child
RECURSIVE AppendedMarks(_)
AppendedMarks(n) ==
    IF n.nodeName \in IS_MARK
    THEN Append(AppendedMarks(n.children[1][1]), [type |-> defaultNodeName(n.nodeName)])
    ELSE <<>>

\* C4 as claimed: the editor node standing for a chain of k nested mark
\* nodes around a text carries k marks, the innermost first.
C4_Original ==
    (HasBody /\ Body.nodeName = nP) =>
        \A i \in 1..Len(Body.children[1]) :
            Body.children[1][i].nodeName \in IS_MARK =>
                /\ EditorBody.content[1][i].type = nText
                /\ EditorBody.content[1][i].marks = Some(AppendedMarks(Body.children[1][i]))

RECURSIVE GenericOnly(_)
GenericOnly(n) ==
    \/ n.nodeName = nText
    \/ /\ IsGeneric(n)
       /\ n.children # None => \A i \in 1..Len(n.children[1]) : GenericOnly(n.children[1][i])

\* m reproduces n: same names, same children in order, same content, and the
\* attributes of n that have a value (so no parent key)
RECURSIVE Reproduces(_, _)
Reproduces(n, m) ==
    /\ m.nodeName = n.nodeName
    /\ m.content = n.content
    /\ (IF m.attributes = None THEN EmptyObj ELSE m.attributes[1]) = DefinedAttributes(n)
    /\ (m.children = None) <=> (n.children = None)
    /\ n.children # None =>
         /\ Len(m.children[1]) = Len(n.children[1])
         /\ \A i \in 1..Len(n.children[1]) : Reproduces(n.children[1][i], m.children[1][i])

\* C5 as claimed: saving a loaded subtree of generic nodes and text leaves
\* reproduces it.
C5_Original ==
    (pc = "saved" /\ saved.kind = "value" /\ HasBody /\ GenericOnly(Body)) =>
        Reproduces(Body, saved.val.children[1][1])

\* C6 as claimed: a mark node around a text, loaded and saved, is a mark
\* node around that text again.
C6_Original ==
    (/\ pc = "saved" /\ saved.kind = "value" /\ HasBody
     /\ Body.nodeName = nP
     /\ Body.children[1][1].nodeName \in IS_MARK
     /\ Body.children[1][1].children # None
     /\ Len(Body.children[1][1].children[1]) = 1
     /\ Body.children[1][1].children[1][1].nodeName = nText) =>
        LET m == saved.val.children[1][1].children[1][1]
        IN /\ m.nodeName = Body.children[1][1].nodeName
           /\ m.children # None
           /\ Len(m.children[1]) = 1
           /\ m.children[1][1].nodeName = nText
           /\ m.children[1][1].content = Body.children[1][1].children[1][1].content

SavedGeneric ==
    /\ pc = "saved"
    /\ saved.kind = "value"
    /\ getJditaNodeName(handed.type) \notin {nText, nVideo, nAudio}

\* C7 as claimed: unTravel of a generic editor node with attrs {count:'0'}
\* returns attributes without the key count.
C7_Original ==
    (SavedGeneric /\ handed.attrs = Some([count |-> Str(<<"0">>)])) =>
        "count" \notin DOMAIN saved.val.attributes[1]

\* C7 as amended: unTravel of a generic editor node removes exactly the keys
\* whose value is undefined, the empty string, the number 0 or false; the
\* string '0' is none of these, and attrs {count:'0'} gives attributes
\* {count:'0'}.
C7_FalsyFilter ==
    SavedGeneric =>
        LET attrs == IF handed.attrs = None THEN EmptyObj ELSE handed.attrs[1]
            kept == {key \in DOMAIN attrs :
                        attrs[key] \notin {Undefined, Str(<<>>), Num(<<"0">>), Bool(<<"false">>)}}
        IN /\ saved.val.attributes = Some([key \in kept |-> attrs[key]])
           /\ handed.attrs = Some([count |-> Str(<<"0">>)])
                => saved.val.attributes = Some([count |-> Str(<<"0">>)])

C7_Witness ==
    /\ SavedGeneric
    /\ handed.attrs = Some([count |-> Str(<<"0">>)])
    /\ saved.val.attributes = Some([count |-> Str(<<"0">>)])

\* the document's only child is an image node
ImageLoaded ==
    /\ pc # "load"
    /\ input.nodeName = nDocument
    /\ input.children # None
    /\ Len(input.children[1]) = 1
    /\ input.children[1][1].nodeName = nImage

\* the first child of n is an alt node whose first child is a text node
HasAltText(n) ==
    /\ n.children # None
    /\ Len(n.children[1]) > 0
    /\ n.children[1][1].nodeName = nAlt
    /\ n.children[1][1].children # None
    /\ Len(n.children[1][1].children[1]) > 0
    /\ n.children[1][1].children[1][1].nodeName = nText

\* what the generic rule gives for a node without image, audio and video
\* nodes below it, as the child of a node named parent
RECURSIVE GenericNode(_, _)
GenericNode(n, parent) ==
    IF n.nodeName = nText
    THEN [type |-> nText, attrs |-> Some([parent |-> Str(parent)]), content |-> None,
          text |-> n.content, marks |-> None]
    ELSE IF n.nodeName \in IS_MARK
    THEN [GenericNode(n.children[1][1], parent) EXCEPT
            !.marks = Some(<<[type |-> defaultNodeName(n.nodeName)]>>)]
    ELSE [type |-> defaultNodeName(n.nodeName),
          attrs |-> Some(SetKey(DefinedAttributes(n), "parent", Str(parent))),
          content |-> IF n.children = None THEN None
                      ELSE Some([i \in 1..Len(n.children[1]) |->
                                   GenericNode(n.children[1][i], n.nodeName)]),
          text |-> None, marks |-> None]

\* C8 as claimed: an image whose first child is an alt node starting with a
\* text gives { type:'image', attrs: defined attributes + alt + parent } and
\* no content; every other image gives what the generic rule gives, and the
\* transform does not fail.
C8_Original ==
    ImageLoaded =>
        /\ loaded.kind = "value"
        /\ LET image == input.children[1][1]
               e == loaded.val.content[1][1]
           IN IF HasAltText(image)
              THEN e = [type |-> nImage, content |-> None, text |-> None, marks |-> None,
                        attrs |-> Some(SetKey(SetKey(DefinedAttributes(image), "alt",
                                   Str(image.children[1][1].children[1][1].content[1])),
                                   "parent", Str(nDoc)))]
              ELSE e = GenericNode(image, nDoc)

MediaLoaded == HasBody /\ Body.nodeName \in {nAudio, nVideo}

MarkerChildren(n) ==
    IF n.children = None THEN {}
    ELSE {i \in 1..Len(n.children[1]) :
            n.children[1][i].nodeName \in {nMediaAutoplay, nMediaControls, nMediaLoop, nMediaMuted}
            \/ (n.nodeName = nVideo /\ n.children[1][i].nodeName = nVideoPoster)}

\* C9 as claimed: an audio node without defined attributes and without
\* marker children gives an editor node without attrs; a video node always
\* has attrs.
C9_Original ==
    MediaLoaded =>
        IF Body.nodeName = nAudio /\ DefinedAttributes(Body) = EmptyObj /\ MarkerChildren(Body) = {}
        THEN EditorBody.attrs = None
        ELSE EditorBody.attrs # None

\* C9 as amended: audio and video editor nodes alike always have attrs; for
\* a node without defined attributes and without marker children attrs holds
\* the injected parent key and nothing else.
C9_AttrsAlwaysIncluded ==
    MediaLoaded =>
        /\ EditorBody.attrs # None
        /\ (DefinedAttributes(Body) = EmptyObj /\ MarkerChildren(Body) = {})
              => EditorBody.attrs = Some([parent |-> Str(nDoc)])

C9_Witness ==
    /\ MediaLoaded
    /\ Body.nodeName = nAudio
    /\ Body.attributes = Some([outputclass |-> Undefined])
    /\ Body.children = Some(<<JDita(nMediaTrack, None, None, None)>>)
    /\ EditorBody.attrs = Some([parent |-> Str(nDoc)])

MarkerOf ==
    [autoplay |-> nMediaAutoplay, controls |-> nMediaControls, loop |-> nMediaLoop,
     muted |-> nMediaMuted, poster |-> nVideoPoster]

\* the value attribute of a source node, undefined when it has none
ValueOf(c) ==
    IF c.attributes # None /\ "value" \in DOMAIN c.attributes[1]
    THEN c.attributes[1]["value"] ELSE Undefined

ControlsAndLoop ==
    [nodeName |-> <<"video">>, attributes |-> None, content |-> None,
     children |-> Some(<<
        [nodeName |-> <<"media", "-", "controls">>, children |-> None, content |-> None,
         attributes |-> Some([value |-> Str(<<"true">>)])],
        [nodeName |-> <<"media", "-", "loop">>, children |-> None, content |-> None,
         attributes |-> Some([value |-> Str(<<"false">>)])] >>)]

\* C10: an audio or video node is flattened: every marker child (poster for
\* video only) gives attrs its value attribute under autoplay, controls,
\* loop, muted or poster and is no content entry; the desc, media-track and
\* media-source children are the content, transformed, in source order; a
\* video with media-controls 'true' and media-loop 'false' has attrs
\* {controls:'true', loop:'false', parent}.
C10_MediaFlattened ==
    MediaLoaded =>
        LET ch == IF Body.children = None THEN <<>> ELSE Body.children[1]
            attrs == EditorBody.attrs[1]
            keys == IF Body.nodeName = nVideo
                    THEN {"autoplay", "controls", "loop", "muted", "poster"}
                    ELSE {"autoplay", "controls", "loop", "muted"}
            kept == Retained(Body)
        IN /\ EditorBody.type = Body.nodeName
           /\ \A key \in keys :
                LET at == {i \in 1..Len(ch) : ch[i].nodeName = MarkerOf[key]}
                IN IF at = {}
                   THEN key \notin DOMAIN attrs
                   ELSE /\ key \in DOMAIN attrs
                        /\ attrs[key] = ValueOf(ch[CHOOSE i \in at : \A j \in at : j <= i])
           /\ DOMAIN attrs \subseteq keys \cup DOMAIN DefinedAttributes(Body) \cup {"parent"}
           /\ EditorBody.content # None
           /\ Len(EditorBody.content[1]) = Len(kept)
           /\ \A i \in 1..Len(kept) : EditorBody.content[1][i] = GenericNode(kept[i], Body.nodeName)
           /\ Body = ControlsAndLoop =>
                EditorBody.attrs = Some([controls |-> Str(<<"true">>), loop |-> Str(<<"false">>),
                                         parent |-> Str(<<"doc">>)])

C10_Witness ==
    /\ MediaLoaded
    /\ Body = ControlsAndLoop
    /\ EditorBody.attrs = Some([controls |-> Str(<<"true">>), loop |-> Str(<<"false">>),
                                parent |-> Str(<<"doc">>)])
    /\ EditorBody.content = Some(<<>>)

\* The expansion of an audio or video editor node e into the source node m:
\* the first content entry, one marker node per playback attribute that is
\* not undefined, in the fixed order of the node's kind, each with the
\* attribute's value as its value attribute, and the second content entry.
MediaExpansion(e, m) ==
    LET attrs == IF e.attrs = None THEN EmptyObj ELSE e.attrs[1]
        order == IF e.type = nVideo
                 THEN << <<"poster", nVideoPoster>>, <<"controls", nMediaControls>>,
                         <<"autoplay", nMediaAutoplay>>, <<"loop", nMediaLoop>>,
                         <<"muted", nMediaMuted>> >>
                 ELSE << <<"controls", nMediaControls>>, <<"autoplay", nMediaAutoplay>>,
                         <<"loop", nMediaLoop>>, <<"muted", nMediaMuted>>,
                         <<"source", nMediaSource>> >>
        IsDefined(o) == o[1] \in DOMAIN attrs /\ attrs[o[1]].k # "undefined"
        markers == SelectSeq(order, IsDefined)
    IN /\ m.nodeName = e.type
       /\ m.children # None
       /\ Len(m.children[1]) = Len(markers) + 2
       /\ m.children[1][1] = unTravel(e.content[1][1]).val
       /\ \A i \in 1..Len(markers) :
            /\ m.children[1][i + 1].nodeName = markers[i][2]
            /\ ValueOf(m.children[1][i + 1]) = attrs[markers[i][1]]
            /\ m.children[1][i + 1].children = None
       /\ m.children[1][Len(markers) + 2] = unTravel(e.content[1][2]).val

IsMediaNode(e) == e.type \in {nAudio, nVideo}
HasTwoEntries(e) == e.content # None /\ Len(e.content[1]) >= 2

\* C11: unTravel of a video or audio editor node with its two positional
\* children gives the children content[0], the markers of the defined
\* attributes in the fixed order (video: poster, controls, autoplay, loop,
\* muted; audio: controls, autoplay, loop, muted, source), content[1]; this
\* holds for the node handed to unTravel and for a media node below it.
C11_MediaChildrenOrder ==
    (pc = "saved" /\ saved.kind = "value") =>
        /\ (IsMediaNode(handed) /\ HasTwoEntries(handed)) => MediaExpansion(handed, saved.val)
        /\ handed.content # None =>
             \A i \in 1..Len(handed.content[1]) :
                (/\ ~IsMediaNode(handed)
                 /\ IsMediaNode(handed.content[1][i])
                 /\ HasTwoEntries(handed.content[1][i]))
                    => MediaExpansion(handed.content[1][i], saved.val.children[1][i])

C11_Witness ==
    /\ pc = "saved"
    /\ handed.type = nVideo
    /\ handed.attrs = Some([muted |-> Str(<<"muted", ".", "v">>),
                            poster |-> Str(<<"poster", ".", "v">>),
                            controls |-> Str(<<"controls", ".", "v">>)])
    /\ saved.kind = "value"
    /\ HasTwoEntries(handed)
    /\ Len(saved.val.children[1]) = 5
    /\ saved.val.children[1][2].nodeName = nVideoPoster
    /\ saved.val.children[1][3].nodeName = nMediaControls
    /\ saved.val.children[1][4].nodeName = nMediaMuted
    /\ saved.val.children[1][5].nodeName = nMediaSource

\* a mark node without exactly one child, at n or below it
RECURSIVE HasMalformedMark(_)
HasMalformedMark(n) ==
    \/ n.nodeName \in IS_MARK /\ (n.children = None \/ Len(n.children[1]) # 1)
    \/ n.children # None /\ \E i \in 1..Len(n.children[1]) : HasMalformedMark(n.children[1][i])

\* C12 as claimed: a document with a mark node that has no child, an empty
\* child list or two children makes the forward transform fail with an
\* error raised for the malformed mark (not the TypeError of a property read
\* on an undefined result), and nothing is returned.
C12_Original ==
    (pc # "load" /\ input.nodeName = nDocument /\ HasMalformedMark(input)) =>
        /\ loaded.kind = "throw"
        /\ loaded.val = NoPM
        /\ loaded.err # <<"TypeError">>

\* C13 as claimed: unTravel of a video or audio editor node without two
\* content entries fails, and no returned source node has an undefined
\* entry among its children.
C13_Original ==
    pc = "saved" =>
        /\ (IsMediaNode(handed) /\ ~HasTwoEntries(handed)) => saved.kind = "throw"
        /\ (saved.kind = "value" /\ saved.val.children # None) =>
              \A i \in 1..Len(saved.val.children[1]) : saved.val.children[1][i] # UndefinedEntry

\* C14 as claimed: document() leaves the source tree as it was but for the
\* root's name, and unTravel() leaves the editor tree as it was.
C14_Original ==
    /\ (pc = "edit" /\ input # NoJDita) => jdita = [input EXCEPT !.nodeName = nDoc]
    /\ (pc = "saved" /\ saved.kind = "value") => pm = handed

\* every node of the editor tree e has attrs, and no key of it holds undefined
RECURSIVE AttrsDefined(_)
AttrsDefined(e) ==
    /\ e.attrs # None
    /\ \A key \in DOMAIN e.attrs[1] : e.attrs[1][key] # Undefined
    /\ e.content # None => \A i \in 1..Len(e.content[1]) : AttrsDefined(e.content[1][i])

\* C15 as claimed: every node of a loaded editor tree has an attrs map
\* without undefined values, also an audio or video node with a marker child
\* that has no value attribute.
C15_Original == loaded.kind = "value" => AttrsDefined(loaded.val)

\* the parameters a URL carries: those of its query, window.location.search
QueryOf(u) == URLSearchParams(search(u))

\* the key/value pairs of a stored parameter list and of a returned map
StoredPairs(stored) == {<<stored[i].key, stored[i].value>> : i \in 1..Len(stored)}
MapPairs(map) == {<<key, map[key]>> : key \in DOMAIN map}

\* every valid key occurs among the parameters, each time with a value, and
\* there is no code and no error parameter
IsEditRequest(params) ==
    /\ \A key \in validKeys :
          /\ has(params, key)
          /\ \A i \in 1..Len(params) : params[i].key = key => params[i].value # <<>>
    /\ ~has(params, <<"code">>)
    /\ ~has(params, <<"error">>)

\* C16 as claimed: processRequest returns a map only when the URL of the
\* page carries a code parameter and no error parameter and userParams is
\* stored; the map then holds exactly the stored key/value pairs; and
\* userParams is only ever written by a page whose URL had ghrepo, source,
\* branch and referer with values and neither code nor error.
C16_Original ==
    /\ returned.kind = "object" =>
          /\ has(QueryOf(url), <<"code">>)
          /\ ~has(QueryOf(url), <<"error">>)
          /\ storedParams # None
          /\ MapPairs(returned.val) = StoredPairs(JSON_parse(storedParams[1]))
    /\ localStorage.userParams # None =>
          /\ writer # None
          /\ IsEditRequest(QueryOf(writer[1]))

\* its three parts, each on its own
OnlyWithCode ==
    returned.kind = "object" =>
        /\ has(QueryOf(url), <<"code">>)
        /\ ~has(QueryOf(url), <<"error">>)
        /\ storedParams # None
ExactPairs ==
    (returned.kind = "object" /\ storedParams # None) =>
        MapPairs(returned.val) = StoredPairs(JSON_parse(storedParams[1]))
WrittenByEditRequest ==
    localStorage.userParams # None =>
        /\ writer # None
        /\ IsEditRequest(QueryOf(writer[1]))

\* What does hold: with the parameters read as getAndValidateParameterValues
\* reads them (the text between the first and the second "?" of the URL,
\* fragment included) and the map holding the last stored value of each key.
CodeRead(u) == LET urlParts == split(u, "?")
               IN IF Len(urlParts) = 1 THEN <<>> ELSE URLSearchParams(urlParts[2])
ProcessRequestAsCoded ==
    /\ returned.kind = "object" =>
          /\ has(CodeRead(url), <<"code">>)
          /\ ~has(CodeRead(url), <<"error">>)
          /\ storedParams # None
          /\ LET stored == JSON_parse(storedParams[1])
             IN /\ MapPairs(returned.val) \subseteq StoredPairs(stored)
                /\ DOMAIN returned.val = {stored[i].key : i \in 1..Len(stored)}
                /\ writer # None
                /\ stored = CodeRead(writer[1])
    /\ localStorage.userParams # None =>
          /\ writer # None
          /\ IsEditRequest(CodeRead(writer[1]))
          /\ JSON_parse(localStorage.userParams[1]) = CodeRead(writer[1])

====
